---- MODULE Spec2Model ----
(***************************************************************************)
(* A model of the maestro code-review tool.                                *)
(*                                                                         *)
(*   ai_manager.py   AIManager: the provider pool and call_ai              *)
(*   main.py         setup_review_environment, perform_code_review, main   *)
(*   utils.py        get_user_preferences, save/load_checkpoint,           *)
(*                   parse_sub_agent_result                                *)
(*   maestro.py      the stand-alone script: main, load/save_checkpoint    *)
(*                                                                         *)
(* Strings are modelled by what the code reads of them: a prompt by its    *)
(* length, a model response by its length and its line structure, an       *)
(* error message by its words.  Python indices are kept 0-based.           *)
(***************************************************************************)
EXTENDS Integers, Sequences, FiniteSets, TLC

\* ------------------------------------------------------------------ bounds
MaxKeys == 3          \* credentials per configured platform
MaxBudget == 3        \* largest token_budget drawn
MaxPromptLen == 5     \* longest prompt, in characters
MaxResultLen == 8     \* longest response, in characters

Min(a, b) == IF a <= b THEN a ELSE b
Max(a, b) == IF a >= b THEN a ELSE b
Last(s) == s[Len(s)]

\* ---------------------------------------------------------- ai_manager.py
DefaultWait == 60

\* Exception messages, word by word (str(e) is searched by the tests).
BudgetMessage == <<"Token", "budget", "exceeded.", "Review", "process", "halted.">>
ExhaustedMessage ==
    <<"Max", "retries", "reached.", "Unable", "to", "call", "any", "AI", "platform.">>
\* float() / datetime.fromisoformat() on a reset header they cannot read.
ValueErrorMessage == <<"ValueError">>

\* needle in str(e): the words of needle occur contiguously in hay.
Contains(hay, needle) ==
    \E k \in 0..(Len(hay) - Len(needle)) :
        \A j \in 1..Len(needle) : hay[k + j] = needle[j]

\* The rate-limit reset header as the provider reads it: missing, unreadable,
\* or a reset instant given here as (reset - now) in seconds.
Hint(tag, delta) == [tag |-> tag, delta |-> delta]
ResetHints ==
    {Hint("absent", 0), Hint("malformed", 0),
     Hint("at", -3), Hint("at", 2), Hint("at", 5), Hint("at", 75)}

\* config["max_tokens"] of the platform entries drawn: the anthropic model
\* allows more than the max_tokens_per_call of the review settings, the
\* openai model less.
ModelMaxTokens(provider) == IF provider = "openai" THEN 1 ELSE 3

\* A provider configuration: is ai_model a key of the platforms table, which
\* provider kind it names, how many api keys that provider has, and the
\* max_tokens of the model.
Configs ==
    {[supported |-> s, provider |-> p, nkeys |-> n, max_tokens |-> ModelMaxTokens(p)] :
        s \in BOOLEAN, p \in {"anthropic", "openai", "other"}, n \in 0..MaxKeys}

\* AIManager._initialize_ai_platforms: one client per api key, of the
\* configured kind; a kind that is neither anthropic nor openai adds none.
_initialize_ai_platforms(cfg) ==
    IF cfg.provider \in {"anthropic", "openai"}
    THEN [k \in 1..cfg.nkeys |-> [kind |-> cfg.provider, max_tokens |-> cfg.max_tokens]]
    ELSE <<>>

\* AnthropicAI / OpenAIGPT.call_ai: the max_tokens of the API request.
RequestMaxTokensUnclamped(platform, max_tokens) == max_tokens
RequestMaxTokens(platform, max_tokens) == Min(max_tokens, platform.max_tokens)

\* AnthropicAI / OpenAIGPT.get_rate_limit_reset_time: the seconds to wait, or
\* the ValueError of parsing a header it cannot read (raises).
get_rate_limit_reset_time(hint) ==
    CASE hint.tag = "absent" -> [raises |-> FALSE, wait |-> DefaultWait]
      [] hint.tag = "malformed" -> [raises |-> TRUE, wait |-> 0]
      [] OTHER -> [raises |-> FALSE, wait |-> Max(hint.delta, 0)]

\* AIManager._estimate_tokens
EstimateRoundedUp(len) == (len + 3) \div 4
_estimate_tokens(len) == len \div 4

VARIABLES
    ai_platforms,            \* AIManager.ai_platforms
    review_settings,         \* AIManager.review_settings
    current_platform_index,  \* AIManager.current_platform_index
    tokens_used,             \* AIManager.tokens_used
    call,                    \* the frame of the call_ai in progress or last finished
    pc,                      \* main.py: where main() stands
    checkpoint,              \* the file review_checkpoint.pkl
    repo,                    \* GitHubHandler's clone
    repo_structure,          \* perform_code_review's locals ...
    file_state,
    previous_results,
    changes_summary,
    resume,                  \* the answer to the resume question ("unasked" before)
    exit_error,              \* the exception main() ended with (<<>> for none)
    mpc,                     \* maestro.py: where its main() stands
    args,                    \* maestro.py: the parsed command line
    project,                 \* the files of args.input_dir
    checkpoint_file,         \* output_dir/review_checkpoint.pkl
    full_structure,          \* maestro.py main()'s locals ...
    processed_structure,
    review_results,
    iteration,
    wrapper,                 \* the frame of retry_on_rate_limit's wrapper
    written,                 \* write_improved_project has written the output
    raised                   \* the exception maestro.py main() re-raised

aivars == <<ai_platforms, review_settings, current_platform_index, tokens_used, call>>
mainvars == <<pc, checkpoint, repo, repo_structure, file_state, previous_results,
              changes_summary, resume, exit_error>>
maestrovars == <<mpc, args, project, checkpoint_file, full_structure,
                 processed_structure, review_results, iteration, wrapper,
                 written, raised>>
vars == <<aivars, mainvars, maestrovars>>

NoResult == [text |-> <<>>, len |-> 0]

\* No call_ai has been made yet.  invoked, slept and wait_times are the
\* providers invoked, the time.sleep durations and the wait_time values
\* printed (line 131) by the call, in order; requests holds the max_tokens of
\* the API request of each invocation.
IdleCall ==
    [pc |-> "idle", caller |-> "none", prompt |-> 0, max_tokens |-> 0,
     start_index |-> 0, i |-> 0, invoked |-> <<>>, slept |-> <<>>,
     result |-> NoResult, error |-> <<>>, entry_tokens |-> 0, entry_index |-> 0,
     served_before |-> -1, wait_times |-> <<>>, requests |-> <<>>]

Finished(c) == c.pc \in {"idle", "returned", "raised"}

\* The provider that served the call c, or -1.
ServedBy(c) == IF c.pc = "returned" THEN Last(c.invoked) ELSE -1

\* AIManager.__init__
AIManagerInit(cfg, budget, per_call) ==
    /\ ai_platforms = _initialize_ai_platforms(cfg)
    /\ current_platform_index = 0
    /\ review_settings = [token_budget |-> budget, max_tokens_per_call |-> per_call]
    /\ tokens_used = 0
    /\ call = IdleCall

\* call_ai, lines 108-117: the budget check, max_tokens, start_index.
BudgetCheckStrict == tokens_used > review_settings.token_budget
BudgetCheck == tokens_used >= review_settings.token_budget

CallAIEnter(who, plen) ==
    /\ Finished(call)
    /\ LET fresh == [IdleCall EXCEPT !.caller = who, !.prompt = plen,
                                     !.entry_tokens = tokens_used,
                                     !.entry_index = current_platform_index,
                                     !.served_before = ServedBy(call)]
       IN  call' = IF BudgetCheck
                   THEN [fresh EXCEPT !.pc = "raised", !.error = BudgetMessage]
                   ELSE [fresh EXCEPT !.pc = "loop",
                                      !.max_tokens =
                                          Min(review_settings.max_tokens_per_call,
                                              review_settings.token_budget - tokens_used),
                                      !.start_index = current_platform_index]
    /\ UNCHANGED <<ai_platforms, review_settings, current_platform_index, tokens_used>>

InLoop == call.pc = "loop" /\ call.i < Len(ai_platforms)

NextIndex == (current_platform_index + 1) % Len(ai_platforms)

\* line 120: the request the provider under the cursor sends.
Request == RequestMaxTokens(ai_platforms[current_platform_index + 1], call.max_tokens)

\* lines 120-126: the provider returns r.
TokensAfter(r) == tokens_used + _estimate_tokens(call.prompt) + _estimate_tokens(r.len)

\* "return result" leaves the cursor on the provider that answered.
IndexAfterSuccessRotated == NextIndex
IndexAfterSuccess == current_platform_index

ProviderSucceeds(r) ==
    /\ InLoop
    /\ tokens_used' = TokensAfter(r)
    /\ current_platform_index' = IndexAfterSuccess
    /\ call' = [call EXCEPT !.pc = "returned", !.result = r,
                            !.invoked = Append(@, current_platform_index),
                            !.requests = Append(@, Request)]
    /\ UNCHANGED <<ai_platforms, review_settings>>

\* lines 127-142: the provider raises RateLimitError carrying reset header h.
SleepsAfterEveryRateLimit == TRUE
SleepsAfterRateLimit == NextIndex = call.start_index

ProviderRateLimited(h) ==
    /\ InLoop
    /\ LET wait_time == get_rate_limit_reset_time(h)
       IN  IF wait_time.raises
           THEN /\ call' = [call EXCEPT !.pc = "raised", !.error = ValueErrorMessage,
                                        !.invoked = Append(@, current_platform_index),
                                        !.requests = Append(@, Request)]
                /\ UNCHANGED current_platform_index
           ELSE /\ current_platform_index' = NextIndex
                /\ call' = [call EXCEPT !.i = @ + 1,
                                        !.invoked = Append(@, current_platform_index),
                                        !.requests = Append(@, Request),
                                        !.wait_times = Append(@, wait_time.wait),
                                        !.slept = IF SleepsAfterRateLimit
                                                  THEN Append(@, wait_time.wait) ELSE @]
    /\ UNCHANGED <<ai_platforms, review_settings, tokens_used>>

\* lines 143-147: the provider raises any other exception.
IndexAfterErrorStays == current_platform_index
IndexAfterError == NextIndex

ProviderFails ==
    /\ InLoop
    /\ current_platform_index' = IndexAfterError
    /\ call' = [call EXCEPT !.i = @ + 1, !.invoked = Append(@, current_platform_index),
                            !.requests = Append(@, Request)]
    /\ UNCHANGED <<ai_platforms, review_settings, tokens_used>>

\* line 149: the for loop ran out.
RaiseExhausted ==
    /\ call.pc = "loop"
    /\ call.i >= Len(ai_platforms)
    /\ call' = [call EXCEPT !.pc = "raised", !.error = ExhaustedMessage]
    /\ UNCHANGED <<ai_platforms, review_settings, current_platform_index, tokens_used>>

\* ---------------------------------------------------- main.py, utils.py
\* Paths named by the modelled responses; NonePath is Python's None used as
\* a dictionary key by parse_sub_agent_result.
Paths == {"app.py", "util.py", "pkg"}
NonePath == "None"

\* --- dictionaries (insertion-ordered, as Python's) as sequences of <<k, v>>
Keys(d) == {d[j][1] : j \in 1..Len(d)}
DictSet(d, k, v) ==
    IF k \in Keys(d)
    THEN [j \in 1..Len(d) |-> IF d[j][1] = k THEN <<k, v>> ELSE d[j]]
    ELSE Append(d, <<k, v>>)

\* --- FileState: a function from the tracked paths to their status
Put(fs, k, v) == [p \in (DOMAIN fs) \cup {k} |-> IF p = k THEN v ELSE fs[p]]
Pop(fs, k) == [p \in (DOMAIN fs) \ {k} |-> fs[p]]
PopOr(fs, k, default) == IF k \in DOMAIN fs THEN fs[k] ELSE default

\* --- the planning response: lines "LABEL: value", or free text (label "none")
PLine(label, value) == [label |-> label, value |-> value]

\* str.strip() on the values the modelled responses carry.
Strip(v) ==
    CASE v = "COMPLETE " -> "COMPLETE"
      [] v = " " -> ""
      [] OTHER -> v

\* A group (.+) running from the value of line a to the end of line b - 1:
\* it needs one character at least; a line break is one (re.DOTALL).
GroupNonEmpty(text, a, b) == text[a].value # "" \/ b - 1 > a

LabelAt(text, label, lo) == {j \in lo..Len(text) : text[j].label = label}
MaxOf(S) == CHOOSE x \in S : \A y \in S : y <= x
MinOf(S) == CHOOSE x \in S : \A y \in S : x <= y

\* The ways the four labels can be matched in order from STATUS line i.
Matches(text, i) ==
    {m \in [n : LabelAt(text, "NEXT_ACTION", i + 1),
            t : LabelAt(text, "TARGET", i + 2),
            r : LabelAt(text, "REASONING", i + 3)] :
        /\ m.n < m.t /\ m.t < m.r
        /\ GroupNonEmpty(text, i, m.n)
        /\ GroupNonEmpty(text, m.n, m.t)
        /\ GroupNonEmpty(text, m.t, m.r)
        /\ GroupNonEmpty(text, m.r, Len(text) + 1)}

\* The text of a group: the value of its first line, alone or followed by
\* further lines, then stripped.  Only a one-line group can equal a keyword.
GroupText(text, a, b) == IF b - 1 > a THEN "<several lines>" ELSE Strip(text[a].value)

NoParse == [ok |-> FALSE, status |-> "", next_action |-> "", target |-> "", reasoning |-> ""]

\* parse_orchestrator_response: re.search takes the leftmost STATUS that
\* matches, and each greedy group reaches as far as a match allows.
parse_orchestrator_response(text) ==
    LET starts == {i \in LabelAt(text, "STATUS", 1) : Matches(text, i) # {}}
    IN  IF starts = {} THEN NoParse
        ELSE LET i == MinOf(starts)
                 n == MaxOf({m.n : m \in Matches(text, i)})
                 t == MaxOf({m.t : m \in {x \in Matches(text, i) : x.n = n}})
                 r == MaxOf({m.r : m \in {x \in Matches(text, i) : x.n = n /\ x.t = t}})
             IN  [ok |-> TRUE,
                  status |-> GroupText(text, i, n),
                  next_action |-> GroupText(text, n, t),
                  target |-> GroupText(text, t, r),
                  reasoning |-> GroupText(text, r, Len(text) + 1)]

\* --- the execution response: directive lines, code markers, content lines
XLine(kind, a, b) == [kind |-> kind, a |-> a, b |-> b]
Modify(p) == XLine("MODIFY", p, "")
Create(p) == XLine("CREATE", p, "")
Delete(p) == XLine("DELETE", p, "")
Rename(p, q) == XLine("RENAME", p, q)
Mkdir(p) == XLine("MKDIR", p, "")
OpenCode == XLine("<PYTHON_CODE>", "", "")
CloseCode == XLine("</PYTHON_CODE>", "", "")
Content(t) == XLine("TEXT", t, "")

NoChanges == [modify |-> <<>>, delete |-> <<>>, rename |-> <<>>, mkdir |-> <<>>]

\* One turn of the for loop of parse_sub_agent_result, lines 140-163.
\* st: changes, current_file ("" for None), current_content, in_python_code.
ParseLine(st, line) ==
    CASE line.kind \in {"MODIFY", "CREATE"} ->
            [st EXCEPT !.changes.modify =
                           IF st.current_file # ""
                           THEN DictSet(@, st.current_file, st.current_content) ELSE @,
                       !.current_file = line.a,
                       !.current_content = <<>>,
                       !.in_python_code = FALSE]
      [] line.kind = "<PYTHON_CODE>" -> [st EXCEPT !.in_python_code = TRUE]
      [] line.kind = "</PYTHON_CODE>" ->
            [st EXCEPT !.in_python_code = FALSE,
                       !.changes.modify =
                           DictSet(@, IF st.current_file = "" THEN NonePath
                                      ELSE st.current_file, st.current_content),
                       !.current_file = "",
                       !.current_content = <<>>]
      [] line.kind = "DELETE" -> [st EXCEPT !.changes.delete = Append(@, line.a)]
      [] line.kind = "RENAME" -> [st EXCEPT !.changes.rename = DictSet(@, line.a, line.b)]
      [] line.kind = "MKDIR" -> [st EXCEPT !.changes.mkdir = Append(@, line.a)]
      [] OTHER -> IF st.in_python_code
                  THEN [st EXCEPT !.current_content = Append(@, line.a)]
                  ELSE st

RECURSIVE ParseFrom(_, _, _)
ParseFrom(st, result, j) ==
    IF j > Len(result) THEN st ELSE ParseFrom(ParseLine(st, result[j]), result, j + 1)

\* parse_sub_agent_result: the operations read from the response; an
\* operation kind with no entry is dropped by the final comprehension, which
\* the empty sequence stands for here.
parse_sub_agent_result(result) ==
    ParseFrom([changes |-> NoChanges, current_file |-> "", current_content |-> <<>>,
               in_python_code |-> FALSE], result, 1).changes

\* "if changes:" and the count of line 149.
HasChangesNotNone(changes) == Len(changes.delete) >= 0
HasChanges(changes) == changes # NoChanges
OperationCount(changes) ==
    Len(changes.modify) + Len(changes.delete) + Len(changes.rename) + Len(changes.mkdir)

\* ------------------------------------------------------ github_handler.py
\* The clone: the files and the directories that exist in it.
Repo(files, dirs) == [files |-> files, dirs |-> dirs]

\* get_repo_structure: one entry per file of the clone (every modelled name
\* passes the include and exclude patterns); read by main.py as a mapping
\* keyed by relative path.
get_repo_structure(r) == r.files

\* The operations of an edit script in the order "for operation, details in
\* changes.items()" visits them: modify, delete, rename, mkdir.
Op(kind, a, b) == [kind |-> kind, a |-> a, b |-> b]
Ops(changes) ==
    [j \in 1..Len(changes.modify) |-> Op("modify", changes.modify[j][1], "")]
    \o [j \in 1..Len(changes.delete) |-> Op("delete", changes.delete[j], "")]
    \o [j \in 1..Len(changes.rename) |-> Op("rename", changes.rename[j][1], changes.rename[j][2])]
    \o [j \in 1..Len(changes.mkdir) |-> Op("mkdir", changes.mkdir[j], "")]

\* commit_changes, lines 130-155: whether the operation raises on this clone
\* (open() of a directory or of None, os.remove of a directory, os.rename of
\* a missing source or onto a directory, makedirs over a file).
OpRaises(r, op) ==
    CASE op.kind = "modify" -> op.a = NonePath \/ op.a \in r.dirs
      [] op.kind = "delete" -> op.a \in r.dirs
      [] op.kind = "rename" -> op.a \notin r.files \/ op.b \in r.dirs
      [] OTHER -> op.a \in r.files

\* ... and the clone after it when it does not.
OpEffect(r, op) ==
    CASE op.kind = "modify" -> Repo(r.files \cup {op.a}, r.dirs)
      [] op.kind = "delete" -> Repo(r.files \ {op.a}, r.dirs)
      [] op.kind = "rename" -> Repo((r.files \ {op.a}) \cup {op.b}, r.dirs)
      [] OTHER -> Repo(r.files, r.dirs \cup {op.a})

\* One attempt of commit_changes from operation k on.  failAt names the step
\* at which the environment fails (disk, git index, push): 0 for none,
\* j for operation j, Len(ops) + 1 for the commit and push of lines 157-161.
RECURSIVE RunOps(_, _, _, _)
RunOps(r, ops, k, failAt) ==
    IF k > Len(ops) THEN [repo |-> r, ok |-> failAt # Len(ops) + 1]
    ELSE IF failAt = k \/ OpRaises(r, ops[k]) THEN [repo |-> r, ok |-> FALSE]
    ELSE RunOps(OpEffect(r, ops[k]), ops, k + 1, failAt)

\* @retry(stop=stop_after_attempt(3)): a failed attempt is run again, from
\* the first operation, on the clone as the failed attempt left it.
RetryAttempts == 3

RECURSIVE Retry(_, _, _, _)
Retry(r, ops, fails, n) ==
    LET one == RunOps(r, ops, 1, fails[n])
    IN  IF one.ok \/ n >= RetryAttempts THEN [repo |-> one.repo, ok |-> one.ok, attempts |-> n]
        ELSE Retry(one.repo, ops, fails, n + 1)

\* commit_changes(changes) under the environment failures fails[1..3].
commit_changes(r, changes, fails) == Retry(r, Ops(changes), fails, 1)

\* ------------------------------------------------ main.py, the review loop
\* perform_code_review, lines 87-89.
InitialFileState(structure) == [p \in structure |-> "original"]

\* lines 154-168, one operation of the edit script.
UpdateOneKeepsOld(fs, op) ==
    CASE op.kind = "modify" -> Put(fs, op.a, "modified")
      [] op.kind = "rename" -> Put(fs, op.b, PopOr(fs, op.a, "renamed"))
      [] op.kind = "delete" -> Pop(fs, op.a)
      [] OTHER -> Put(fs, op.a, "new_directory")
UpdateOne(fs, op) ==
    CASE op.kind = "modify" -> Put(fs, op.a, "modified")
      [] op.kind = "rename" -> Put(Pop(fs, op.a), op.b, PopOr(fs, op.a, "renamed"))
      [] op.kind = "delete" -> Pop(fs, op.a)
      [] OTHER -> Put(fs, op.a, "new_directory")

RECURSIVE UpdateFrom(_, _, _)
UpdateFrom(fs, ops, k) ==
    IF k > Len(ops) THEN fs ELSE UpdateFrom(UpdateOne(fs, ops[k]), ops, k + 1)

\* lines 174-176: the paths of the rescan that are not tracked yet.
AddNew(fs, structure) ==
    [p \in (DOMAIN fs) \cup structure |-> IF p \in DOMAIN fs THEN fs[p] ELSE "new"]

\* lines 153-176.
UpdateFileState(fs, changes, structure) ==
    AddNew(UpdateFrom(fs, Ops(changes), 1), structure)

\* line 148-150: the summary entry of an iteration.
SummaryEntryUnnumbered(history, changes) ==
    [iteration |-> 1, operations |-> OperationCount(changes)]
SummaryEntry(history, changes) ==
    [iteration |-> Len(history) + 1, operations |-> OperationCount(changes)]

\* --------------------------------------------------- utils.py, checkpoints
CheckpointFile(exists, data) == [exists |-> exists, data |-> data]
NoCheckpoint == CheckpointFile(FALSE, <<>>)

\* save_checkpoint: the tuple pickled into review_checkpoint.pkl.
SaveCheckpointSwapped(preferences, review_depth, repo_url, structure, history, fs) ==
    CheckpointFile(TRUE, <<preferences, review_depth, repo_url, structure, fs, history>>)
save_checkpoint(preferences, review_depth, repo_url, structure, history, fs) ==
    CheckpointFile(TRUE, <<preferences, review_depth, repo_url, structure, history, fs>>)

\* load_checkpoint: the tuple unpickled.
load_checkpoint(file) == file.data

\* get_user_preferences: the checkpoint when one exists and the operator
\* answers yes to the resume question, else the answers to the prompts with
\* no repo_structure (FALSE for None) and no previous results.
get_user_preferences(file, answer) ==
    IF file.exists /\ answer
    THEN load_checkpoint(file)
    ELSE <<"preferences", "balanced", "repo_url", "max_file_size_mb",
           "include_patterns", "exclude_patterns", FALSE, <<>>>>

\* setup_review_environment, lines 27-36: the tuple is unpacked into eight
\* names; any other length is Python's ValueError.
UnpackNames == 8
UnpackRaises(t) == Len(t) # UnpackNames
UnpackErrorMessage == <<"ValueError:", "not", "enough", "values", "to", "unpack">>

\* ------------------------------------------- AIManager under any client
ClientResults == [text : {<<>>}, len : 0..MaxResultLen]

\* main() has not been started.
MainIdle ==
    /\ pc = "idle"
    /\ checkpoint = NoCheckpoint
    /\ repo = Repo({}, {})
    /\ repo_structure = {}
    /\ file_state = <<>>
    /\ previous_results = <<>>
    /\ changes_summary = <<>>
    /\ resume = "unasked"
    /\ exit_error = <<>>

\* retry_on_rate_limit's wrapper is not running.
IdleWrapper ==
    [state |-> "idle", func |-> "none", retries |-> 0, invocations |-> 0,
     waits |-> <<>>, result |-> <<>>, error |-> <<>>]

\* maestro.py has not been started.
MaestroIdle ==
    /\ mpc = "idle"
    /\ args = [resume |-> FALSE]
    /\ project = {}
    /\ checkpoint_file = NoCheckpoint
    /\ full_structure = {}
    /\ processed_structure = {}
    /\ review_results = <<>>
    /\ iteration = 0
    /\ wrapper = IdleWrapper
    /\ written = FALSE
    /\ raised = <<>>

InitAI ==
    /\ \E cfg \in Configs, budget \in 0..MaxBudget :
           /\ cfg.supported
           /\ AIManagerInit(cfg, budget, 2)
    /\ MainIdle
    /\ MaestroIdle

ClientCalls == \E plen \in 0..MaxPromptLen : CallAIEnter("client", plen)
ClientSucceeds == \E r \in ClientResults : ProviderSucceeds(r)
ClientRateLimited == \E h \in ResetHints : ProviderRateLimited(h)

NextAI ==
    \/ ClientCalls /\ UNCHANGED <<mainvars, maestrovars>>
    \/ ClientSucceeds /\ UNCHANGED <<mainvars, maestrovars>>
    \/ ClientRateLimited /\ UNCHANGED <<mainvars, maestrovars>>
    \/ ProviderFails /\ UNCHANGED <<mainvars, maestrovars>>
    \/ RaiseExhausted /\ UNCHANGED <<mainvars, maestrovars>>

SpecAI == InitAI /\ [][NextAI]_vars
\* ------------------------------------------------------- main.py, main()
MaxHistory == 2       \* iterations applied before the model stops exploring

Preferences == "preferences"
ReviewDepth == "balanced"
RepoUrl == "repo_url"

\* The responses the model backend may give to a planning prompt ...
PlanGarbage == <<PLine("none", "I could not decide")>>
PlanComplete ==
    <<PLine("STATUS", "COMPLETE"), PLine("NEXT_ACTION", "NONE"),
      PLine("TARGET", "NONE"), PLine("REASONING", "done")>>
PlanReview ==
    <<PLine("STATUS", "CONTINUE"), PLine("NEXT_ACTION", "REVIEW"),
      PLine("TARGET", "app.py"), PLine("REASONING", "fix bug")>>
PlanLowerCase ==
    <<PLine("STATUS", "CONTINUE"), PLine("NEXT_ACTION", "review"),
      PLine("TARGET", "app.py"), PLine("REASONING", "fix bug")>>
PlanTruncated == <<PLine("STATUS", "COMPLETE")>>
PlanNoTarget ==
    <<PLine("STATUS", "COMPLETE"), PLine("NEXT_ACTION", "NONE"),
      PLine("TARGET", ""), PLine("REASONING", "done")>>
PlanResponses ==
    {PlanGarbage, PlanTruncated, PlanComplete, PlanReview, PlanLowerCase, PlanNoTarget}

\* ... to an execution prompt ...
ExecResponses ==
    {<<Content("nothing to change")>>,
     <<Modify("app.py"), OpenCode, Content("print('fixed')"), CloseCode>>,
     <<Modify("app.py"), Content("print('fixed')")>>,
     <<Create("util.py"), OpenCode, Content("pass"), CloseCode>>,
     <<Delete("app.py")>>,
     <<Rename("app.py", "util.py")>>,
     <<Mkdir("pkg")>>,
     <<Modify("app.py"), OpenCode, Content("pass"), CloseCode, Delete("app.py")>>,
     <<Delete("util.py"), Rename("app.py", "util.py")>>}

\* ... and to the README prompt (analyze_changes_and_update_readme looks for
\* the SUMMARY and README_UPDATES sections).
ReadmeValid == <<"SUMMARY:", "README_UPDATES:">>
ReadmeInvalid == <<"Invalid response format">>
ReadmeResponses == {ReadmeValid, ReadmeInvalid}
ReadmeParseMessage == <<"Failed", "to", "parse", "AI", "response">>
RetryErrorMessage == <<"RetryError">>

\* Lengths of the prompts of a review (0, 1 or 2 tokens) and of the responses
\* (3 characters, no token).
ReviewPromptLens == {0, 4, 8}
ReviewResultLens == {3}

ResultsFor(caller) ==
    CASE caller = "plan" -> [text : PlanResponses, len : ReviewResultLens]
      [] caller = "exec" -> [text : ExecResponses, len : ReviewResultLens]
      [] OTHER -> [text : ReadmeResponses, len : ReviewResultLens]

\* The headers a rate-limited backend sends during a review.
ReviewHints == {Hint("absent", 0), Hint("malformed", 0)}

\* main.py:198-206 and perform_code_review:87-92.  answer is the operator's
\* reply to "Do you want to resume?", asked only when a checkpoint exists.
MainStart(answer) ==
    /\ pc = "start"
    /\ answer => checkpoint.exists
    /\ resume' = IF ~checkpoint.exists THEN "unasked" ELSE IF answer THEN "yes" ELSE "no"
    /\ LET t == get_user_preferences(checkpoint, answer)
       IN  IF UnpackRaises(t)
           THEN /\ pc' = "exit"
                /\ exit_error' = UnpackErrorMessage
                /\ UNCHANGED <<repo_structure, file_state, previous_results, changes_summary>>
           ELSE /\ pc' = "planning"
                /\ repo_structure' = IF t[7] = FALSE THEN get_repo_structure(repo) ELSE t[7]
                /\ previous_results' = t[8]
                /\ file_state' = InitialFileState(repo_structure')
                /\ changes_summary' = <<>>
                /\ UNCHANGED exit_error
    /\ UNCHANGED <<aivars, maestrovars, checkpoint, repo>>

\* lines 102-110, 129-138 and 223-231: the three call_ai call sites.
Dispatch(at, who, then) ==
    /\ pc = at
    /\ \E plen \in ReviewPromptLens : CallAIEnter(who, plen)
    /\ pc' = then
    /\ UNCHANGED <<maestrovars, checkpoint, repo, repo_structure, file_state,
                   previous_results, changes_summary, resume, exit_error>>

PlanningCall == Dispatch("planning", "plan", "plan_wait")
ExecutionCall == Dispatch("executing", "exec", "exec_wait")
ReadmeCall == Dispatch("finish", "readme", "readme_wait")

Waiting == pc \in {"plan_wait", "exec_wait", "readme_wait"}

BackendAnswers ==
    /\ Waiting
    /\ \E r \in ResultsFor(call.caller) : ProviderSucceeds(r)
    /\ UNCHANGED <<mainvars, maestrovars>>
BackendRateLimits ==
    /\ Waiting
    /\ \E h \in ReviewHints : ProviderRateLimited(h)
    /\ UNCHANGED <<mainvars, maestrovars>>
BackendFails == Waiting /\ ProviderFails /\ UNCHANGED <<mainvars, maestrovars>>
RoundExhausted == Waiting /\ RaiseExhausted /\ UNCHANGED <<mainvars, maestrovars>>

\* main.py:240-247: except logs and re-raises; finally removes the clone and
\* the checkpoint file.
CheckpointAfterFinallyKept == checkpoint
CheckpointAfterFinally == NoCheckpoint

MainFinally(err) ==
    /\ pc' = "exit"
    /\ exit_error' = err
    /\ repo' = Repo({}, {})
    /\ checkpoint' = CheckpointAfterFinally

\* An exception of call_ai leaves perform_code_review and main().
CallRaises ==
    /\ Waiting
    /\ call.pc = "raised"
    /\ MainFinally(call.error)
    /\ UNCHANGED <<aivars, maestrovars, repo_structure, file_state, previous_results,
                   changes_summary, resume>>

Returned(at) == pc = at /\ call.pc = "returned"
parsed_result == parse_orchestrator_response(call.result.text)

\* lines 116-120
ParseFailure ==
    /\ Returned("plan_wait")
    /\ ~parsed_result.ok
    /\ pc' = "planning"
    /\ UNCHANGED <<aivars, maestrovars, checkpoint, repo, repo_structure, file_state,
                   previous_results, changes_summary, resume, exit_error>>

\* lines 122-126
ReviewCompleteUnchecked ==
    /\ Returned("plan_wait")
    /\ \E j \in 1..Len(call.result.text) :
           call.result.text[j] = PLine("STATUS", "COMPLETE")
    /\ pc' = "finish"
    /\ UNCHANGED <<aivars, maestrovars, checkpoint, repo, repo_structure, file_state,
                   previous_results, changes_summary, resume, exit_error>>
ReviewCompleteAnyStatus ==
    /\ Returned("plan_wait")
    /\ parsed_result.ok
    /\ parsed_result.status # ""
    /\ pc' = "finish"
    /\ UNCHANGED <<aivars, maestrovars, checkpoint, repo, repo_structure, file_state,
                   previous_results, changes_summary, resume, exit_error>>
ReviewComplete ==
    /\ Returned("plan_wait")
    /\ parsed_result.ok
    /\ parsed_result.status = "COMPLETE"
    /\ pc' = "finish"
    /\ UNCHANGED <<aivars, maestrovars, checkpoint, repo, repo_structure, file_state,
                   previous_results, changes_summary, resume, exit_error>>

\* line 128
WantsReview == parsed_result.next_action = "REVIEW"

DispatchReview ==
    /\ Returned("plan_wait")
    /\ parsed_result.ok
    /\ parsed_result.status # "COMPLETE"
    /\ WantsReview
    /\ pc' = "executing"
    /\ UNCHANGED <<aivars, maestrovars, checkpoint, repo, repo_structure, file_state,
                   previous_results, changes_summary, resume, exit_error>>

\* lines 180-188
CheckpointNowStale(structure, history, fs) ==
    save_checkpoint(Preferences, ReviewDepth, RepoUrl, structure,
                    SubSeq(history, 1, Len(history) - 1), fs)
CheckpointNow(structure, history, fs) ==
    save_checkpoint(Preferences, ReviewDepth, RepoUrl, structure, history, fs)

\* line 128 is false: straight to the checkpoint of lines 180-188.
SkipReview ==
    /\ Returned("plan_wait")
    /\ parsed_result.ok
    /\ parsed_result.status # "COMPLETE"
    /\ ~WantsReview
    /\ checkpoint' = CheckpointNow(repo_structure, previous_results, file_state)
    /\ pc' = "planning"
    /\ UNCHANGED <<aivars, maestrovars, repo, repo_structure, file_state, previous_results,
                   changes_summary, resume, exit_error>>

changes == parse_sub_agent_result(call.result.text)

\* lines 177-188
NoChangesProposed ==
    /\ Returned("exec_wait")
    /\ ~HasChanges(changes)
    /\ checkpoint' = CheckpointNow(repo_structure, previous_results, file_state)
    /\ pc' = "planning"
    /\ UNCHANGED <<aivars, maestrovars, repo, repo_structure, file_state, previous_results,
                   changes_summary, resume, exit_error>>

\* The environment's failures over the three attempts of commit_changes.
Failures(ops) == [1..RetryAttempts -> 0..(Len(ops) + 1)]

\* lines 146-188, commit_changes returned.
ApplyChanges ==
    /\ Returned("exec_wait")
    /\ HasChanges(changes)
    /\ Len(previous_results) < MaxHistory
    /\ \E fails \in Failures(Ops(changes)) :
          LET done == commit_changes(repo, changes, fails)
          IN  /\ done.ok
              /\ repo' = done.repo
    /\ changes_summary' = Append(changes_summary, SummaryEntry(previous_results, changes))
    /\ previous_results' = Append(previous_results, call.result.text)
    /\ repo_structure' = get_repo_structure(repo')
    /\ file_state' = UpdateFileState(file_state, changes, repo_structure')
    /\ checkpoint' = CheckpointNow(repo_structure', previous_results', file_state')
    /\ pc' = "planning"
    /\ UNCHANGED <<aivars, maestrovars, resume, exit_error>>

\* line 147, commit_changes raised after its last attempt.
ApplyFails ==
    /\ Returned("exec_wait")
    /\ HasChanges(changes)
    /\ \E fails \in Failures(Ops(changes)) : ~commit_changes(repo, changes, fails).ok
    /\ MainFinally(RetryErrorMessage)
    /\ UNCHANGED <<aivars, maestrovars, repo_structure, file_state, previous_results,
                   changes_summary, resume>>

\* main.py:219-238 and the finally block.
ReportWritten ==
    /\ Returned("readme_wait")
    /\ call.result.text = ReadmeValid
    /\ MainFinally(<<>>)
    /\ UNCHANGED <<aivars, maestrovars, repo_structure, file_state, previous_results,
                   changes_summary, resume>>

\* analyze_changes_and_update_readme raises ValueError.
ReportUnparsed ==
    /\ Returned("readme_wait")
    /\ call.result.text # ReadmeValid
    /\ MainFinally(ReadmeParseMessage)
    /\ UNCHANGED <<aivars, maestrovars, repo_structure, file_state, previous_results,
                   changes_summary, resume>>

\* update_readme or create_pull_request raises after its retries.
ReportNotPushed ==
    /\ Returned("readme_wait")
    /\ call.result.text = ReadmeValid
    /\ MainFinally(RetryErrorMessage)
    /\ UNCHANGED <<aivars, maestrovars, repo_structure, file_state, previous_results,
                   changes_summary, resume>>

\* A checkpoint an earlier, killed run left behind: its state after one
\* iteration that modified app.py.
LeftoverCheckpoint ==
    CheckpointNow({"app.py"},
                  <<<<Modify("app.py"), OpenCode, Content("print('fixed')"), CloseCode>>>>,
                  [p \in {"app.py"} |-> "modified"])

\* The review runs on one credential; the rotation of a larger pool is
\* examined under SpecAI.
ReviewConfig ==
    [supported |-> TRUE, provider |-> "anthropic", nkeys |-> 1, max_tokens |-> 3]

Init ==
    /\ AIManagerInit(ReviewConfig, MaxBudget, 2)
    /\ pc = "start"
    /\ checkpoint \in {NoCheckpoint, LeftoverCheckpoint}
    /\ repo \in {Repo({"app.py"}, {}), Repo({"app.py", "util.py"}, {})}
    /\ repo_structure = {}
    /\ file_state = <<>>
    /\ previous_results = <<>>
    /\ changes_summary = <<>>
    /\ resume = "unasked"
    /\ exit_error = <<>>
    /\ MaestroIdle

Next ==
    \/ \E answer \in BOOLEAN : MainStart(answer)
    \/ PlanningCall
    \/ ExecutionCall
    \/ ReadmeCall
    \/ BackendAnswers
    \/ BackendRateLimits
    \/ BackendFails
    \/ RoundExhausted
    \/ CallRaises
    \/ ParseFailure
    \/ ReviewComplete
    \/ DispatchReview
    \/ SkipReview
    \/ NoChangesProposed
    \/ ApplyChanges
    \/ ApplyFails
    \/ ReportWritten
    \/ ReportUnparsed
    \/ ReportNotPushed

Spec == Init /\ [][Next]_vars

\* --- the review under the hypothesis that every successful call_ai adds at
\* least one token to tokens_used (lines 122-125), with a backend that always
\* comes to an outcome and a process that always takes its next step.
FreeAnswer == BackendAnswers
PaidAnswer == BackendAnswers /\ tokens_used' > tokens_used

NextPaid ==
    \/ \E answer \in BOOLEAN : MainStart(answer)
    \/ PlanningCall
    \/ ExecutionCall
    \/ ReadmeCall
    \/ PaidAnswer
    \/ BackendRateLimits
    \/ BackendFails
    \/ RoundExhausted
    \/ CallRaises
    \/ ParseFailure
    \/ ReviewComplete
    \/ DispatchReview
    \/ SkipReview
    \/ NoChangesProposed
    \/ ApplyChanges
    \/ ApplyFails
    \/ ReportWritten
    \/ ReportUnparsed
    \/ ReportNotPushed

SpecPaid == Init /\ [][NextPaid]_vars /\ WF_vars(NextPaid)

\* -------------------------------------------------------------- maestro.py
MaxIterations == 5    \* sub-agent results appended in one run of maestro.py

\* retry_on_rate_limit(max_retries=5) and "if iteration % 5 == 0".
max_retries == 5
CheckpointEvery == 5

\* read_project_structure: every file is in the full structure, the .py
\* files with their contents in the processed one.
PyFiles == {"a.py", "old.py"}
read_project_structure(input_dir) ==
    [full |-> input_dir, processed |-> input_dir \cap PyFiles]

\* maestro.py save_checkpoint and load_checkpoint (None when the file is missing).
maestro_save_checkpoint(full, processed, results) ==
    CheckpointFile(TRUE, <<full, processed, results>>)
\* open(checkpoint_file, 'wb') creates or truncates the file: it exists and
\* holds no pickle until pickle.dump has written it.
TruncatedFile == CheckpointFile(TRUE, <<>>)
maestro_load_checkpoint(file) ==
    IF file.exists THEN [none |-> FALSE, data |-> file.data]
    ELSE [none |-> TRUE, data |-> <<>>]

\* The responses of the three model calls.
CompleteMarker == <<"The", "review", "is", "complete:">>
OrchestratorResponses ==
    {<<"The", "review", "is", "complete:", "no", "issues", "left">>,
     <<"Next", "task:", "use", "f-strings">>,
     <<"the", "review", "is", "complete">>}
SubAgentResponses == {<<"replaced", "format", "calls">>}
RefineValid == <<"{", "}">>
RefineInvalid == <<"Here", "is", "the", "project">>
RefineResponses == {RefineValid, RefineInvalid}

ResponsesOf(func) ==
    CASE func = "opus_orchestrator" -> OrchestratorResponses
      [] func = "haiku_sub_agent" -> SubAgentResponses
      [] OTHER -> RefineResponses

\* The rate-limit headers of a 429: the two reset times as seconds from now
\* (present FALSE when the headers are missing) and retry-after.
Headers(present, requests_reset, tokens_reset, retry_after) ==
    [present |-> present, requests_reset |-> requests_reset,
     tokens_reset |-> tokens_reset, retry_after |-> retry_after]
RateLimitHeaders ==
    {Headers(FALSE, 0, 0, 0), Headers(TRUE, -3, -3, 0), Headers(TRUE, 2, -3, 5)}

\* wrapper, lines 64-79: the wait computed from the headers.
WaitTime(h) ==
    Max(Max(Max(h.requests_reset, 0), Max(h.tokens_reset, 0)), h.retry_after) + 1

RateLimitMessage == <<"RateLimitError">>
APIErrorMessage == <<"APIError">>
JSONDecodeMessage == <<"JSONDecodeError">>
OSErrorMessage == <<"OSError">>

\* A decorated function is called: wrapper starts with retries = 0.
EnterWrapper(at, func, then) ==
    /\ mpc = at
    /\ wrapper' = [IdleWrapper EXCEPT !.state = "running", !.func = func]
    /\ mpc' = then
    /\ UNCHANGED <<aivars, mainvars, args, project, checkpoint_file, full_structure,
                   processed_structure, review_results, iteration, written, raised>>

CallOrchestrator == EnterWrapper("orchestrate", "opus_orchestrator", "orchestrate_wait")
CallSubAgent == EnterWrapper("sub_agent", "haiku_sub_agent", "sub_agent_wait")
CallRefine == EnterWrapper("refine", "opus_refine", "refine_wait")

WrapperOnly ==
    UNCHANGED <<aivars, mainvars, mpc, args, project, checkpoint_file, full_structure,
                processed_structure, review_results, iteration, written, raised>>

\* line 52: func returns.
AttemptReturns ==
    /\ wrapper.state = "running"
    /\ \E r \in ResponsesOf(wrapper.func) :
          wrapper' = [wrapper EXCEPT !.state = "returned", !.result = r,
                                     !.invocations = @ + 1]
    /\ WrapperOnly

\* lines 53-86: func raises RateLimitError.  parse_rfc3339 of a missing reset
\* header raises ValueError inside the handler.
AttemptRateLimited ==
    /\ wrapper.state = "running"
    /\ \E h \in RateLimitHeaders :
          LET retries == wrapper.retries + 1
              tried == [wrapper EXCEPT !.retries = retries, !.invocations = @ + 1]
          IN  wrapper' =
                  IF retries = max_retries
                  THEN [tried EXCEPT !.state = "raised", !.error = RateLimitMessage]
                  ELSE IF ~h.present
                  THEN [tried EXCEPT !.state = "raised", !.error = ValueErrorMessage]
                  ELSE [tried EXCEPT !.waits = Append(@, WaitTime(h))]
    /\ WrapperOnly

\* func raises anything else: not caught by the wrapper.
AttemptFails ==
    /\ wrapper.state = "running"
    /\ wrapper' = [wrapper EXCEPT !.state = "raised", !.error = APIErrorMessage,
                                  !.invocations = @ + 1]
    /\ WrapperOnly

\* main, lines 259-273.  args.resume is not read.
MaestroStart ==
    /\ mpc = "start"
    /\ LET checkpoint_data == maestro_load_checkpoint(checkpoint_file)
           scan == read_project_structure(project)
       IN  IF ~checkpoint_data.none
           THEN /\ full_structure' = checkpoint_data.data[1]
                /\ processed_structure' = checkpoint_data.data[2]
                /\ review_results' = checkpoint_data.data[3]
           ELSE /\ full_structure' = scan.full
                /\ processed_structure' = scan.processed
                /\ review_results' = <<>>
    /\ iteration' = 0
    /\ mpc' = "orchestrate"
    /\ UNCHANGED <<aivars, mainvars, args, project, checkpoint_file, wrapper,
                   written, raised>>

MaestroReturned(at) == mpc = at /\ wrapper.state = "returned"

\* lines 279-280
ReviewIsComplete ==
    /\ MaestroReturned("orchestrate_wait")
    /\ Contains(wrapper.result, CompleteMarker)
    /\ mpc' = "refine"
    /\ UNCHANGED <<aivars, mainvars, args, project, checkpoint_file, full_structure,
                   processed_structure, review_results, iteration, wrapper,
                   written, raised>>

\* line 281
NextTask ==
    /\ MaestroReturned("orchestrate_wait")
    /\ ~Contains(wrapper.result, CompleteMarker)
    /\ iteration < MaxIterations
    /\ mpc' = "sub_agent"
    /\ UNCHANGED <<aivars, mainvars, args, project, checkpoint_file, full_structure,
                   processed_structure, review_results, iteration, wrapper,
                   written, raised>>

\* lines 282-287
SubAgentDone ==
    /\ MaestroReturned("sub_agent_wait")
    /\ review_results' = Append(review_results, wrapper.result)
    /\ iteration' = iteration + 1
    /\ checkpoint_file' =
           IF iteration' % CheckpointEvery = 0 THEN TruncatedFile ELSE checkpoint_file
    /\ mpc' = IF iteration' % CheckpointEvery = 0 THEN "saving" ELSE "orchestrate"
    /\ UNCHANGED <<aivars, mainvars, args, project, full_structure,
                   processed_structure, wrapper, written, raised>>

\* save_checkpoint, line 26: pickle.dump writes the tuple into the opened
\* file; then the loop goes on (line 275) or the handler re-raises (302).
CheckpointDumped ==
    /\ mpc = "saving"
    /\ checkpoint_file' =
           maestro_save_checkpoint(full_structure, processed_structure, review_results)
    /\ mpc' = IF raised = <<>> THEN "orchestrate" ELSE "exit"
    /\ UNCHANGED <<aivars, mainvars, args, project, full_structure,
                   processed_structure, review_results, iteration, wrapper,
                   written, raised>>

\* lines 297-302: the handler opens the checkpoint file for writing (line
\* 25); CheckpointDumped completes the save and the re-raise.
MaestroHandler(err) ==
    /\ checkpoint_file' = TruncatedFile
    /\ raised' = err
    /\ mpc' = "saving"
    /\ UNCHANGED <<aivars, mainvars, args, project, full_structure,
                   processed_structure, review_results, iteration, wrapper>>

\* lines 289-296: refine, write, remove the checkpoint.
MaestroFinish ==
    /\ MaestroReturned("refine_wait")
    /\ wrapper.result = RefineValid
    /\ written' = TRUE
    /\ checkpoint_file' = NoCheckpoint
    /\ mpc' = "exit"
    /\ UNCHANGED <<aivars, mainvars, args, project, full_structure, processed_structure,
                   review_results, iteration, wrapper, raised>>

\* json.loads of opus_refine raises on a response that is not JSON.
RefineUnparsed ==
    /\ MaestroReturned("refine_wait")
    /\ wrapper.result # RefineValid
    /\ MaestroHandler(JSONDecodeMessage)
    /\ UNCHANGED written

\* write_improved_project raises.
WriteFails ==
    /\ MaestroReturned("refine_wait")
    /\ wrapper.result = RefineValid
    /\ MaestroHandler(OSErrorMessage)
    /\ UNCHANGED written

\* An exception left a decorated function.
WrapperRaises ==
    /\ mpc \in {"orchestrate_wait", "sub_agent_wait", "refine_wait"}
    /\ wrapper.state = "raised"
    /\ MaestroHandler(wrapper.error)
    /\ UNCHANGED written

\* A checkpoint an earlier run of maestro.py left in the output directory.
MaestroLeftover ==
    maestro_save_checkpoint({"old.py"}, {"old.py"}, <<<<"renamed", "variables">>>>)

InitMaestro ==
    /\ AIManagerInit(ReviewConfig, 0, 0)
    /\ MainIdle
    /\ mpc = "start"
    /\ args \in [resume : BOOLEAN]
    /\ project \in {{"a.py"}, {"a.py", "notes.txt"}}
    /\ checkpoint_file \in {NoCheckpoint, MaestroLeftover}
    /\ full_structure = {}
    /\ processed_structure = {}
    /\ review_results = <<>>
    /\ iteration = 0
    /\ wrapper = IdleWrapper
    /\ written = FALSE
    /\ raised = <<>>

NextMaestro ==
    \/ MaestroStart
    \/ CallOrchestrator
    \/ CallSubAgent
    \/ CallRefine
    \/ AttemptReturns
    \/ AttemptRateLimited
    \/ AttemptFails
    \/ ReviewIsComplete
    \/ NextTask
    \/ SubAgentDone
    \/ CheckpointDumped
    \/ MaestroFinish
    \/ RefineUnparsed
    \/ WriteFails
    \/ WrapperRaises

SpecMaestro == InitMaestro /\ [][NextMaestro]_vars

\* ------------------------------------------------------- claims, call_ai
TokenBudget == review_settings.token_budget
PoolSize == Len(ai_platforms)

\* C1: a call_ai entered with tokens_used >= token_budget raises the
\* budget-exceeded error, invokes no provider, does not sleep, and leaves
\* tokens_used and the rotation cursor as they were on entry.
C1_BudgetRefusal ==
    (call.pc # "idle" /\ call.entry_tokens >= TokenBudget) =>
        /\ call.pc = "raised"
        /\ call.error = BudgetMessage
        /\ call.invoked = <<>>
        /\ call.slept = <<>>
        /\ tokens_used = call.entry_tokens
        /\ current_platform_index = call.entry_index

\* A call refused after earlier calls had spent the budget.
C1_Witness ==
    /\ call.pc = "raised"
    /\ call.entry_tokens >= TokenBudget
    /\ call.entry_tokens > 0
    /\ call.entry_index > 0

\* C2: tokens_used changes only in the step in which a provider call succeeds,
\* and then by exactly len(prompt) div 4 + len(result) div 4; failed attempts
\* and refused calls leave it unchanged.
C2_TokenAccounting ==
    [][IF call.pc = "loop" /\ call'.pc = "returned"
       THEN tokens_used' = tokens_used + (call.prompt \div 4) + (call'.result.len \div 4)
       ELSE tokens_used' = tokens_used]_vars

\* A call that succeeded after a failed attempt and was charged for both texts.
C2_Witness ==
    /\ call.pc = "returned"
    /\ Len(call.invoked) >= 2
    /\ call.prompt = 5
    /\ call.result.len = 7
    /\ tokens_used = call.entry_tokens + 2

\* C3: tokens_used never decreases; from the first state in which
\* tokens_used >= token_budget it never changes again, every call_ai entered
\* is refused without a provider invocation, and the review loop leaves
\* through the refused call, so that no further planning or execution call
\* reaches a provider.
C3_BudgetIsFinal ==
    [][/\ tokens_used' >= tokens_used
       /\ (tokens_used >= TokenBudget =>
               /\ tokens_used' = tokens_used
               /\ call'.pc # "loop"
               /\ Len(call'.invoked) <= Len(call.invoked)
               /\ (call.pc = "raised" => pc' = "exit"))
      ]_vars

\* A review that overshot its budget in its second iteration and was ended by
\* the refusal of the next planning call.
C3_Witness ==
    /\ pc = "exit"
    /\ exit_error = BudgetMessage
    /\ tokens_used > TokenBudget
    /\ Len(previous_results) >= 1
    /\ call.caller = "plan"
    /\ call.invoked = <<>>

\* A step of call_ai in which a provider was invoked and failed.
FailureStep ==
    /\ call.pc = "loop"
    /\ Len(call'.invoked) = Len(call.invoked) + 1
    /\ call'.pc # "returned"

\* C4: one call_ai makes at most len(pool) provider invocations, the first to
\* the provider under the cursor on entry; every failure advances the cursor
\* by one position modulo len(pool); no provider is invoked twice in a call.
C4_OneRoundPerCall ==
    [][/\ Len(call'.invoked) <= PoolSize
       /\ (call'.invoked # <<>> => call'.invoked[1] = call'.entry_index)
       /\ (FailureStep => current_platform_index' = (current_platform_index + 1) % PoolSize)
       /\ \A j, k \in 1..Len(call'.invoked) : j # k => call'.invoked[j] # call'.invoked[k]
      ]_vars

\* Every provider of the pool was invoked in this call and none answered.
AllProvidersFailed ==
    /\ call.pc = "raised"
    /\ call.entry_tokens < TokenBudget
    /\ \A p \in 0..(PoolSize - 1) : \E j \in 1..Len(call.invoked) : call.invoked[j] = p

\* The message test_call_ai_all_platforms_exhausted looks for in str(e).
ExpectedExhaustedWords == <<"All", "AI", "platforms", "exhausted">>

\* C5: when every provider of the pool fails within one call_ai, the call
\* raises the 'All AI platforms exhausted' error, which is not the
\* budget-exceeded error, after exactly len(pool) provider invocations.
C5_ExhaustedError ==
    AllProvidersFailed =>
        /\ Contains(call.error, ExpectedExhaustedWords)
        /\ call.error # BudgetMessage
        /\ Len(call.invoked) = PoolSize

\* C6: after a call_ai that succeeded on provider P the cursor designates P,
\* having advanced once per failed attempt of that call and not on the
\* success, and the next call_ai invokes P first.
C6_RotationRule ==
    /\ (call.pc = "returned" =>
            /\ current_platform_index = Last(call.invoked)
            /\ current_platform_index =
                   (call.entry_index + Len(call.invoked) - 1) % PoolSize)
    /\ (call.served_before # -1 /\ call.invoked # <<>> =>
            call.invoked[1] = call.served_before)

\* Pool [A, B, C]: the previous call ended on B after A failed, and this call
\* has gone to B first.
C6_Witness ==
    /\ PoolSize = 3
    /\ call.served_before = 1
    /\ call.entry_tokens = 0
    /\ call.invoked # <<>>
    /\ call.invoked[1] = 1

\* --------------------------------------------------- claims, checkpoints
\* main() left the try block of lines 208-239 with an exception.
ReviewAborted ==
    /\ pc = "exit"
    /\ exit_error # <<>>
    /\ exit_error # UnpackErrorMessage

\* C7: whenever the review run of main.py aborts with an unrecovered error
\* (budget exceeded, all providers exhausted, a failed commit or report
\* step), a checkpoint file is on disk when the process ends.
C7_CheckpointSurvivesAbort == ReviewAborted => checkpoint.exists

\* perform_code_review is about to make its first planning call.
LoopEntry == pc = "planning" /\ call.pc = "idle"

\* C8: when a checkpoint exists and the operator chooses to resume, the
\* review loop starts with the FileState and the history stored in the
\* checkpoint; when not resuming it starts from the fresh scan, every
\* scanned path 'original' and the history empty.
C8_ResumeRestores ==
    /\ (resume = "yes" =>
            /\ exit_error # UnpackErrorMessage
            /\ (LoopEntry => /\ file_state = checkpoint.data[6]
                             /\ previous_results = checkpoint.data[5]))
    /\ (resume # "yes" /\ LoopEntry =>
            /\ file_state = InitialFileState(get_repo_structure(repo))
            /\ previous_results = <<>>)

\* C9: a run of maestro.py started without --resume begins from a fresh scan
\* of the project and an empty history, even when a checkpoint file is
\* present (the history at the start is what the run has not appended).
C9_LoadOnlyOnResume ==
    (mpc \notin {"idle", "start"} /\ ~args.resume) =>
        /\ full_structure = read_project_structure(project).full
        /\ processed_structure = read_project_structure(project).processed
        /\ Len(review_results) = iteration

\* ----------------------------------------------------- claims, FileState
\* The step in which an edit script was applied (lines 146-176).
AppliedStep == pc = "exec_wait" /\ pc' = "planning" /\ previous_results' # previous_results

Modified == {changes.modify[j][1] : j \in 1..Len(changes.modify)}
Deleted == {changes.delete[j] : j \in 1..Len(changes.delete)}
Renames == {<<changes.rename[j][1], changes.rename[j][2]>> : j \in 1..Len(changes.rename)}
RenamedFrom == {r[1] : r \in Renames}
RenamedTo == {r[2] : r \in Renames}
Made == {changes.mkdir[j] : j \in 1..Len(changes.mkdir)}
Tracked(fs, p, status) == p \in DOMAIN fs /\ fs[p] = status

\* The status of p before the step, 'renamed' when it was untracked.
FormerStatus(p) == PopOr(file_state, p, "renamed")

StatusAtRename(p) ==
    IF p \in Deleted THEN "renamed"
    ELSE IF p \in Modified THEN "modified"
    ELSE FormerStatus(p)

\* The rename r shares no key with another rename or a mkdir of the script.
RenameStandsAlone(r) ==
    /\ r[1] # r[2]
    /\ {r[1], r[2]} \cap Made = {}
    /\ \A q \in Renames \ {r} : {r[1], r[2]} \cap {q[1], q[2]} = {}

NonEmptyApplied ==
    /\ pc = "exec_wait"
    /\ call.pc = "returned"
    /\ HasChanges(changes)
    /\ pc' = "planning"

\* The checkpoint on disk holds the session as it is now.
CheckpointIsCurrent(history, fs) ==
    /\ checkpoint.exists
    /\ checkpoint.data[5] = history
    /\ checkpoint.data[6] = fs

EmptyScript ==
    /\ pc = "exec_wait"
    /\ call.pc = "returned"
    /\ parse_sub_agent_result(call.result.text) = NoChanges

\* C12: an execution response that parses to an empty edit script leaves
\* FileState, history and changes summary unchanged, does not reach
\* commit_changes (the clone is untouched), and the loop returns to planning.
C12_EmptyScriptIsNoOp ==
    [][EmptyScript =>
          /\ file_state' = file_state
          /\ previous_results' = previous_results
          /\ changes_summary' = changes_summary
          /\ repo' = repo
          /\ repo_structure' = repo_structure
          /\ pc' = "planning"
      ]_vars

\* After one applied script, a response without directives came back and the
\* loop is at planning again with the session as the first iteration left it.
C12_Witness ==
    /\ pc = "planning"
    /\ call.caller = "exec"
    /\ call.result.text = <<Content("nothing to change")>>
    /\ Len(previous_results) = 1
    /\ Len(changes_summary) = 1
    /\ CheckpointIsCurrent(previous_results, file_state)

\* The planning response that has just returned does not parse.
UnparsedPlan ==
    /\ pc = "plan_wait"
    /\ call.pc = "returned"
    /\ ~parse_orchestrator_response(call.result.text).ok

\* C13: a planning response that cannot be parsed sends the loop back to
\* planning: it neither completes the review nor dispatches an execution
\* call, and FileState, history, changes summary and the clone are unchanged.
C13_UnparsedPlanRetries ==
    [][UnparsedPlan =>
          /\ pc' = "planning"
          /\ file_state' = file_state
          /\ previous_results' = previous_results
          /\ changes_summary' = changes_summary
          /\ repo' = repo
          /\ checkpoint' = checkpoint
      ]_vars

\* A response that holds only "STATUS: COMPLETE" came back after one applied
\* script, and the loop is planning again.
C13_Witness ==
    /\ pc = "planning"
    /\ call.caller = "plan"
    /\ call.pc = "returned"
    /\ call.result.text = PlanTruncated
    /\ Len(previous_results) = 1

\* The planning response that has just returned parsed with STATUS COMPLETE.
CompletePlan ==
    /\ pc = "plan_wait"
    /\ call.pc = "returned"
    /\ parse_orchestrator_response(call.result.text).ok
    /\ parse_orchestrator_response(call.result.text).status = "COMPLETE"

\* perform_code_review has returned to main() (lines 190-192).
ReviewReturned == pc \in {"finish", "readme_wait"}

\* C14: perform_code_review returns exactly on a planning response parsed
\* with STATUS COMPLETE; after it has returned no planning or execution call
\* is entered and no edit script is applied (history, FileState and the
\* clone stay as they were until main() cleans up).
C14_ReturnsOnComplete ==
    [][/\ (pc' = "finish" /\ pc # "finish" => CompletePlan)
       /\ (CompletePlan => pc' = "finish")
       /\ (ReviewReturned =>
              /\ pc' \in {"finish", "readme_wait", "exit"}
              /\ call'.caller \notin {"plan", "exec"} \/ call' = call
              /\ previous_results' = previous_results
              /\ file_state' = file_state
              /\ changes_summary' = changes_summary
              /\ repo' = repo \/ pc' = "exit")
       /\ (pc = "exit" => pc' = "exit")
      ]_vars

\* The review was declared complete after one applied script and main() is
\* waiting for the README response.
C14_Witness ==
    /\ pc = "readme_wait"
    /\ call.caller = "readme"
    /\ call.pc = "loop"
    /\ Len(previous_results) = 1
    /\ Len(changes_summary) = 1

\* The planning response that has just returned parsed and does not say
\* COMPLETE.
ContinuePlan ==
    /\ pc = "plan_wait"
    /\ call.pc = "returned"
    /\ parse_orchestrator_response(call.result.text).ok
    /\ parse_orchestrator_response(call.result.text).status # "COMPLETE"

\* C15: every parsed planning response that is not COMPLETE is followed by
\* an execution call, whatever its NEXT_ACTION text is, and an execution
\* call is entered only after such a response.
C15_PlanLeadsToExecution ==
    [][/\ (ContinuePlan => pc' = "executing")
       /\ (pc' = "executing" /\ pc # "executing" => ContinuePlan)
      ]_vars

\* The session of the scenario: app.py alone, tracked as 'original', and no
\* history.
ScenarioSession ==
    /\ repo_structure = {"app.py"}
    /\ file_state = [p \in {"app.py"} |-> "original"]
    /\ previous_results = <<>>

\* C16: from app.py 'original' and an empty history, the planning response
\* STATUS CONTINUE / NEXT_ACTION review / TARGET app.py / REASONING fix bug
\* is followed by an execution call, and the execution response
\* "MODIFY: app.py" with one content line gives FileState
\* {app.py: 'modified'} and one history entry.
C16_ModifyScenario ==
    [][/\ (ScenarioSession /\ pc = "plan_wait" /\ call.pc = "returned"
            /\ call.result.text = PlanLowerCase
              => pc' = "executing")
       /\ (ScenarioSession /\ pc = "exec_wait" /\ call.pc = "returned"
            /\ call.result.text = <<Modify("app.py"), Content("print('fixed')")>>
              => /\ file_state' = [p \in {"app.py"} |-> "modified"]
                 /\ Len(previous_results') = 1)
      ]_vars

\* ------------------------------------------------ claims, rate-limit waits
RECURSIVE SumSeq(_)
SumSeq(s) == IF s = <<>> THEN 0 ELSE s[1] + SumSeq(Tail(s))

\* The ceiling the specification puts on one wait; the same number as the
\* default wait of the code.
WaitCeiling == DefaultWait

\* A step of call_ai in which a provider was rate-limited and its wait_time
\* was computed.
RateLimitedStep == Len(call'.wait_times) = Len(call.wait_times) + 1

\* C17: every rate-limited outcome is followed by a blocking wait of the
\* computed duration before the next provider is invoked, at every position
\* of the round.
C17_SleepAfterEveryRateLimit ==
    [][RateLimitedStep => call'.slept = Append(call.slept, Last(call'.wait_times))]_vars

\* C18: no blocking wait of call_ai exceeds the ceiling of 60: the duration
\* slept is min(provider-supplied wait, 60).
C18_WaitIsCapped ==
    \A j \in 1..Len(call.slept) : call.slept[j] <= WaitCeiling

\* The call ended with the exhausted error after every provider of the
\* pool was rate-limited.
AllRateLimited ==
    /\ call.pc = "raised"
    /\ call.error = ExhaustedMessage
    /\ Len(call.wait_times) = PoolSize
    /\ Len(call.invoked) = PoolSize

\* C19: when all N providers are rate-limited, the time call_ai spends
\* blocked before it raises is at most N x 60.
C19_TotalWaitBounded ==
    AllRateLimited => SumSeq(call.slept) <= PoolSize * WaitCeiling

\* Pool of two, cursor on provider 1 at entry: provider 1 was rate-limited
\* with hint 2, then provider 2 with hint 5.
TwoHintsScenario ==
    /\ PoolSize = 2
    /\ call.entry_index = 0
    /\ call.invoked = <<0, 1>>
    /\ call.wait_times = <<2, 5>>

\* C20: in that scenario the call goes on to a third invocation instead of
\* raising, and the time blocked so far is 2 + 5 = 7.
C20_TwoHintsThenSuccess ==
    TwoHintsScenario => /\ call.pc # "raised"
                        /\ SumSeq(call.slept) = 7

\* ------------------------------------------- claims, pool and rate limits
\* The call has ended and its provider answered with a rate limit: either a
\* wait was computed, or reading the reset header raised.
RateLimitedCallEnded ==
    /\ call.pc = "raised"
    /\ call.invoked # <<>>
    /\ (call.wait_times # <<>> \/ call.error = ValueErrorMessage)

\* C21: with a pool of one provider that is rate-limited, call_ai blocks for
\* the wait of that provider before it returns or raises, so that the single
\* provider is never invoked again after a rate limit without a wait.
C21_SingleProviderBlocks ==
    (PoolSize = 1 /\ RateLimitedCallEnded) =>
        /\ Len(call.slept) = 1
        /\ call.slept = call.wait_times

\* The step in which the provider under the cursor is invoked.
InvocationStep == Len(call'.invoked) = Len(call.invoked) + 1

\* C22: the pool never changes after construction; within one call_ai no
\* provider is invoked twice, and every invocation goes to the provider under
\* the cursor, whether or not that provider failed in an earlier call.
C22_PoolIsFixed ==
    [][/\ ai_platforms' = ai_platforms
       /\ \A j, k \in 1..Len(call'.invoked) :
              j # k => call'.invoked[j] # call'.invoked[k]
       /\ (InvocationStep =>
              /\ call.pc = "loop"
              /\ current_platform_index < PoolSize
              /\ call'.invoked = Append(call.invoked, current_platform_index))
      ]_vars

\* Pool of two: the previous call ended with an error and left the cursor on
\* provider 1, which had failed in it; this call invoked provider 1 again
\* and was answered.
C22_Witness ==
    /\ PoolSize = 2
    /\ call.served_before = -1
    /\ call.entry_index = 1
    /\ call.invoked = <<1>>
    /\ call.pc = "returned"

\* C23: in every reachable state the cursor is a valid index of the pool:
\* 0 <= current_platform_index < len(ai_platforms).
C23_CursorInRange ==
    /\ 0 <= current_platform_index
    /\ current_platform_index < Len(ai_platforms)

\* A rate-limited provider whose reset header was read: the call stayed in
\* its loop or ended with the exhausted error, never with a parsing error.
HandledAsRateLimit ==
    /\ call.pc \in {"loop", "returned"} \/ call.error = ExhaustedMessage
    /\ call.wait_times # <<>> => \A j \in 1..Len(call.wait_times) : call.wait_times[j] >= 0

\* C24: get_rate_limit_reset_time never raises and returns a non-negative
\* duration, the default 60 when the reset header is absent or malformed, so
\* that a call whose provider was rate-limited ends, if it fails, with the
\* exhausted error like after any other rate limit.
C24_ResetTimeNeverRaises ==
    /\ \A h \in ResetHints :
           /\ ~get_rate_limit_reset_time(h).raises
           /\ get_rate_limit_reset_time(h).wait >= 0
           /\ (h.tag # "at" => get_rate_limit_reset_time(h).wait = DefaultWait)
    /\ (call.invoked # <<>> => HandledAsRateLimit)

\* C25: a fatal configuration error shows at pool construction: a constructed
\* manager has a non-empty pool, and no call_ai raises the exhausted error
\* without having invoked a provider.
C25_PoolNotEmpty ==
    /\ Len(ai_platforms) >= 1
    /\ (call.error = ExhaustedMessage => call.invoked # <<>>)

\* The step in which the provider under the cursor raises an error that is
\* not a rate limit (lines 143-147), at its first attempt in this call.
FirstTransientFailure ==
    /\ InvocationStep
    /\ call'.pc = "loop"
    /\ call'.wait_times = call.wait_times
    /\ \A j \in 1..Len(call.invoked) : call.invoked[j] # current_platform_index

\* C26: a transient (non-rate-limit) provider error is retried on the same
\* provider before the cursor rotates: after the first failed attempt the
\* cursor still designates that provider and the call goes on to invoke it
\* again.
C26_RetriesSameProvider ==
    [][FirstTransientFailure =>
           /\ current_platform_index' = current_platform_index
           /\ InLoop'
      ]_vars

\* ---------------------------------------------------- claims, checkpoints
\* main() of main.py ended without an error: the review returned on
\* COMPLETE and the report step succeeded.
ReviewSucceeded == pc = "exit" /\ exit_error = <<>>

\* main() of maestro.py ended without an error: the refined project was
\* written.
MaestroSucceeded == mpc = "exit" /\ raised = <<>> /\ written

\* C27: after a successful run no checkpoint file remains, for main.py and
\* for maestro.py.
C27_NoCheckpointAfterSuccess ==
    /\ ReviewSucceeded => ~checkpoint.exists
    /\ MaestroSucceeded => ~checkpoint_file.exists

\* A run that found a checkpoint of an earlier run, did not resume from it,
\* applied a script of its own (which saved a checkpoint) and ended
\* successfully, with no checkpoint left.
C27_Witness ==
    /\ ReviewSucceeded
    /\ resume = "no"
    /\ Len(changes_summary) >= 1
    /\ checkpoint = NoCheckpoint

Complete(file, n) == file.exists => Len(file.data) = n

\* C29: checkpoint writes are atomic: at every instant the checkpoint file
\* on disk is absent or a complete checkpoint (the previous one or the new
\* one), never a file that load_checkpoint cannot read.
C29_AtomicCheckpoint ==
    /\ Complete(checkpoint, 6)
    /\ Complete(checkpoint_file, 3)

\* -------------------------------------------------- claims, token ceiling
\* C30: every backend request of a call_ai carries the ceiling
\* min(max_tokens_per_call, token_budget - tokens_used at entry, the
\* provider's own max_tokens); the ceiling is at least 1 whenever a provider
\* is invoked, and its first two terms are the same for every provider
\* invoked in the call.
C30_RequestCeiling ==
    /\ Len(call.requests) = Len(call.invoked)
    /\ \A j \in 1..Len(call.requests) :
           /\ call.requests[j] =
                  Min(Min(review_settings.max_tokens_per_call,
                          TokenBudget - call.entry_tokens),
                      ai_platforms[call.invoked[j] + 1].max_tokens)
           /\ call.requests[j] >= 1

\* Pool of two providers of max_tokens 1, three tokens of budget left and
\* max_tokens_per_call 2: both were invoked with the ceiling 1.
C30_Witness ==
    /\ PoolSize = 2
    /\ TokenBudget - call.entry_tokens = 3
    /\ review_settings.max_tokens_per_call = 2
    /\ call.invoked = <<0, 1>>
    /\ call.requests = <<1, 1>>


\* ------------------------------------------------ claims, pool contents
\* The platforms table of the test: anthropic and openai, two keys each.
TestPlatforms ==
    <<[provider |-> "anthropic", nkeys |-> 2], [provider |-> "openai", nkeys |-> 2]>>

\* The configuration _initialize_ai_platforms reads when ai_model selects
\* entry k of the table.
EntryConfig(platforms, k) ==
    [supported |-> TRUE, provider |-> platforms[k].provider,
     nkeys |-> platforms[k].nkeys, max_tokens |-> ModelMaxTokens(platforms[k].provider)]

\* The manager was constructed over that table, for one of its models.
BuiltFrom(platforms) ==
    \E k \in 1..Len(platforms) :
        ai_platforms = _initialize_ai_platforms(EntryConfig(platforms, k))

\* C31: the pool holds one provider per credential of every configured
\* platform, in configuration order: over the table of the test it has four
\* providers, the first an Anthropic one and the third an OpenAI one.
C31_OneProviderPerCredential ==
    BuiltFrom(TestPlatforms) =>
        /\ Len(ai_platforms) = 4
        /\ ai_platforms[1].kind = "anthropic"
        /\ ai_platforms[3].kind = "openai"

\* ----------------------------------------------- claims, response parsing
\* The text is the planning template filled in: the four labelled lines, in
\* order and nothing else.
Rendered(text) ==
    /\ Len(text) = 4
    /\ text[1].label = "STATUS"
    /\ text[2].label = "NEXT_ACTION"
    /\ text[3].label = "TARGET"
    /\ text[4].label = "REASONING"

\* The four labels occur in the text, in that order.
LabelsInOrder(text) ==
    \E i, n, k, r \in 1..Len(text) :
        /\ i < n /\ n < k /\ k < r
        /\ text[i].label = "STATUS"
        /\ text[n].label = "NEXT_ACTION"
        /\ text[k].label = "TARGET"
        /\ text[r].label = "REASONING"

\* C32: parse_orchestrator_response returns exactly the four field values
\* of a planning response rendered in the wire format, and fails (None) on a
\* response in which the four labels do not all appear in order.
C32_PlanningRoundTrip ==
    Returned("plan_wait") =>
        LET text == call.result.text
        IN  /\ Rendered(text) =>
                   /\ parsed_result.ok
                   /\ parsed_result.status = text[1].value
                   /\ parsed_result.next_action = text[2].value
                   /\ parsed_result.target = text[3].value
                   /\ parsed_result.reasoning = text[4].value
            /\ ~LabelsInOrder(text) => ~parsed_result.ok

Directives == {"MODIFY", "CREATE", "DELETE", "RENAME", "MKDIR"}

\* The content lines of the block that directive line j opens: the text
\* lines up to the next directive line or the end of the response.
RECURSIVE BlockContent(_, _)
BlockContent(text, j) ==
    IF j + 1 > Len(text) \/ text[j + 1].kind \in Directives THEN <<>>
    ELSE IF text[j + 1].kind = "TEXT"
         THEN <<text[j + 1].a>> \o BlockContent(text, j + 1)
         ELSE BlockContent(text, j + 1)

\* C33: in every execution response each MODIFY:/CREATE: block yields a
\* modify entry for its path whose content is the lines of the block, code
\* markers or not; DELETE:, RENAME: and MKDIR: lines yield the delete,
\* rename (old -> new) and mkdir entries.
C33_BlocksWithoutMarkers ==
    Returned("exec_wait") =>
        LET text == call.result.text
            parsed == parse_sub_agent_result(text)
        IN  \A j \in 1..Len(text) :
                /\ text[j].kind \in {"MODIFY", "CREATE"} =>
                       \E k \in 1..Len(parsed.modify) :
                           parsed.modify[k] = <<text[j].a, BlockContent(text, j)>>
                /\ text[j].kind = "DELETE" =>
                       \E k \in 1..Len(parsed.delete) : parsed.delete[k] = text[j].a
                /\ text[j].kind = "RENAME" =>
                       \E k \in 1..Len(parsed.rename) :
                           parsed.rename[k] = <<text[j].a, text[j].b>>
                /\ text[j].kind = "MKDIR" =>
                       \E k \in 1..Len(parsed.mkdir) : parsed.mkdir[k] = text[j].a

\* ------------------------------------------------- claims, failed commits
\* The step in which commit_changes raised and the error left main().
ApplyFailedStep ==
    /\ pc = "exec_wait"
    /\ pc' = "exit"
    /\ exit_error' = RetryErrorMessage

\* How many attempts of commit_changes, from attempt n on, carried out the
\* first operation of the script.
RECURSIVE Applications(_, _, _, _)
Applications(r, ops, fails, n) ==
    LET one == RunOps(r, ops, 1, fails[n])
        began == IF Len(ops) >= 1 /\ fails[n] # 1 /\ ~OpRaises(r, ops[1]) THEN 1 ELSE 0
    IN  IF one.ok \/ n >= RetryAttempts THEN began
        ELSE began + Applications(one.repo, ops, fails, n + 1)

\* C34: when commit_changes raises, the error leaves the review loop with
\* FileState, history and changes summary as the last applied iteration left
\* them, and the edit script was applied to the clone at most once, never
\* again from its first operation after a partial application.
C34_FailedCommitAppliedOnce ==
    [][ApplyFailedStep =>
           /\ UNCHANGED <<file_state, previous_results, changes_summary>>
           /\ \A fails \in Failures(Ops(changes)) :
                  ~commit_changes(repo, changes, fails).ok =>
                      Applications(repo, Ops(changes), fails, 1) <= 1
      ]_vars

\* ------------------------------------------------ claims, maestro.py
\* The checkpoint file holds the structures and every review result of the
\* run so far.
MaestroCheckpointCurrent ==
    checkpoint_file =
        maestro_save_checkpoint(full_structure, processed_structure, review_results)

\* The review results a later run can read from the checkpoint file.
SavedResults ==
    IF checkpoint_file.exists /\ Len(checkpoint_file.data) = 3
    THEN Len(checkpoint_file.data[3]) ELSE 0

\* C35: when main() of maestro.py re-raises an exception a checkpoint of the
\* structures and of every review result appended so far is on disk; a
\* checkpoint is also saved after every fifth completed iteration of the
\* run; so at any instant before the run has succeeded a hard kill loses
\* the results of at most four iterations.
C35_MaestroCheckpoints ==
    /\ (mpc = "exit" /\ raised # <<>>) => MaestroCheckpointCurrent
    /\ (mpc = "orchestrate" /\ iteration > 0 /\ iteration % CheckpointEvery = 0) =>
           MaestroCheckpointCurrent
    /\ ~MaestroSucceeded => Len(review_results) - SavedResults <= 4

\* ------------------------------------------------ claims, the single wait
\* The step in which time.sleep is called.
SleepStep == Len(call'.slept) = Len(call.slept) + 1

\* C36: within one call_ai a blocking wait happens at most once, and only
\* in the step in which a rate-limit failure of the last of the len(pool)
\* attempts brings the cursor back to its value at entry; after the wait no
\* provider is invoked and the call raises the exhausted error; a failure
\* that is not a rate limit is followed by no wait.
C36_SingleWaitAtWrap ==
    [][/\ Len(call'.slept) <= 1
       /\ (SleepStep =>
              /\ RateLimitedStep
              /\ call'.slept = <<Last(call'.wait_times)>>
              /\ Len(call'.invoked) = PoolSize
              /\ current_platform_index' = call.entry_index)
       /\ (call.slept # <<>> =>
              /\ ~InvocationStep
              /\ (call'.slept # <<>> =>
                     /\ call'.pc = "raised"
                     /\ call'.error = ExhaustedMessage))
      ]_vars

\* Pool of three, entered with the cursor on provider 1: provider 1 failed
\* with another error, providers 2 and 0 were rate-limited, the call slept
\* once, for the wait of the last one, and raised the exhausted error.
C36_Witness ==
    /\ PoolSize = 3
    /\ call.entry_index = 1
    /\ call.invoked = <<1, 2, 0>>
    /\ call.wait_times = <<2, 5>>
    /\ call.slept = <<5>>
    /\ call.pc = "raised"
    /\ call.error = ExhaustedMessage
    /\ current_platform_index = 1

\* ------------------------------------------- claims, cursor after a round
\* C37: after a call_ai that ended with the exhausted error the cursor has
\* the value it had at entry of the call, having advanced len(pool) times
\* modulo len(pool).
C37_CursorRestored ==
    (call.pc = "raised" /\ call.error = ExhaustedMessage) =>
        /\ Len(call.invoked) = PoolSize
        /\ current_platform_index = call.entry_index

\* Pool of three, entered with the cursor on provider 2: the three providers
\* failed, one of them with a rate limit, and the cursor is on 2 again.
C37_Witness ==
    /\ PoolSize = 3
    /\ call.entry_index = 2
    /\ call.invoked = <<2, 0, 1>>
    /\ Len(call.wait_times) = 1
    /\ call.error = ExhaustedMessage
    /\ current_platform_index = 2

\* ------------------------------------------- claims, history and summary
\* s extends t by appended entries only.
Extends(s, t) == Len(s) >= Len(t) /\ SubSeq(s, 1, Len(t)) = t

\* C38: the changes summary starts empty when perform_code_review starts and
\* from then on grows exactly when the history grows, so that at every entry
\* to the planning step it has as many entries as the history gained in this
\* run; both are append-only, and the iteration numbers of the summary
\* entries are consecutive and strictly increasing.
C38_SummaryMatchesHistory ==
    [][/\ (pc = "start" /\ pc' = "planning" => changes_summary' = <<>>)
       /\ (pc # "start" =>
              /\ Extends(previous_results', previous_results)
              /\ Extends(changes_summary', changes_summary)
              /\ Len(changes_summary') - Len(changes_summary) =
                     Len(previous_results') - Len(previous_results))
       /\ \A j \in 1..(Len(changes_summary') - 1) :
              changes_summary'[j + 1].iteration = changes_summary'[j].iteration + 1
      ]_vars

\* Back at the planning step after two applied scripts: two history entries
\* and the summary entries of iterations 1 and 2.
C38_Witness ==
    /\ pc = "planning"
    /\ Len(previous_results) = 2
    /\ Len(changes_summary) = 2
    /\ changes_summary[1].iteration = 1
    /\ changes_summary[2].iteration = 2

\* ------------------------------------------------------ claims, termination
\* perform_code_review is over: it returned to main() after a COMPLETE
\* planning response, or an error left it.
ReviewOver == pc \in {"finish", "readme_wait", "exit"}

\* C39: with a finite token budget, and every successful call_ai adding at
\* least one token, perform_code_review terminates whatever the model
\* answers: once the loop is entered it returns after a COMPLETE planning
\* response or an error propagates.
C39_ReviewTerminates == (pc = "planning") ~> ReviewOver

\* A model that answered every planning prompt with an unparsable response:
\* no execution call was made, and the run ended with the budget error.
C39_Witness ==
    /\ pc = "exit"
    /\ exit_error = BudgetMessage
    /\ call.caller = "plan"
    /\ previous_results = <<>>
    /\ tokens_used >= TokenBudget

\* ------------------------------------------------- claims, retry_on_rate_limit
\* C40: a function wrapped by retry_on_rate_limit is invoked at most
\* max_retries = 5 times per call.  Each of the first four rate-limit errors
\* is followed by exactly one wait of at least one second, then by the next
\* attempt; the fifth is re-raised without a wait; a successful attempt
\* returns at once; an error other than a rate limit propagates at once;
\* nothing else leaves the wrapper.
C40_RetryOnRateLimit ==
    /\ wrapper.invocations <= max_retries
    /\ \A i \in DOMAIN wrapper.waits : wrapper.waits[i] >= 1
    /\ wrapper.state = "running" =>
           /\ wrapper.invocations = wrapper.retries
           /\ Len(wrapper.waits) = wrapper.retries
    /\ wrapper.state = "returned" =>
           /\ wrapper.invocations = wrapper.retries + 1
           /\ Len(wrapper.waits) = wrapper.retries
    /\ wrapper.state = "raised" =>
           \/ /\ wrapper.error = RateLimitMessage
              /\ wrapper.retries = max_retries
              /\ wrapper.invocations = max_retries
              /\ Len(wrapper.waits) = max_retries - 1
           \/ /\ wrapper.error = APIErrorMessage
              /\ wrapper.invocations = wrapper.retries + 1
              /\ Len(wrapper.waits) = wrapper.retries
====
